---- MODULE Spec2Model ----
(***************************************************************************)
(* stashy: a key-value "stash" trait with two backends.                    *)
(*                                                                         *)
(*   src/src/lib.rs    StashError, trait Stash, Stash::validate_key        *)
(*   src/src/local.rs  LocalStash: Arc<tokio::sync::Mutex<HashMap>>        *)
(*   src/src/redis.rs  RedisStash: a redis MultiplexedConnection           *)
(*                                                                         *)
(* Strings that the code inspects character by character (keys) are        *)
(* sequences of one-character strings; values are opaque strings.          *)
(* Option<T> is a sequence of length 0 (None) or 1 (Some).                 *)
(***************************************************************************)
EXTENDS Integers, Sequences, FiniteSets, TLC

\* ------------------------------------------------------------------ bounds

\* Number of concurrently running tasks that share the backends.
NumTasks == 2

\* Total number of calls (both backends together) made in one behaviour.
MaxCalls == 3

\* Longest string handed to the key validator in SpecKey.
MaxKeyLen == 3

\* Largest database index handed to RedisStash::connect in SpecConnect.
MaxDbIndex == 2

Tasks == 1 .. NumTasks

\* ------------------------------------------------------------------ inputs

\* Characters the validator is exercised with: letters of both cases, a
\* digit, the underscore, the delimiter, and three characters outside the
\* allowed class (a space, a hyphen, and the non-ASCII letter e-acute,
\* written by its code point).
Alphabet == {"a", "Z", "7", "_", ":", " ", "-", "U+00E9"}

\* Keys the backends are called with: three well-formed keys and a
\* malformed one (leading delimiter).
KeyA == <<"a">>
KeyB == <<"b">>
KeyAB == <<"a", ":", "b">>
KeyLead == <<":", "a">>
KeyPool == {KeyA, KeyB, KeyAB, KeyLead}

\* Values stashed by callers.
Values == {"v1", "v2"}

\* ------------------------------------------------------------------ Option / Result

None == <<>>
Some(v) == <<v>>

\* Result<_, StashError> and the plain return values of len / is_empty.
Ok(v) == [tag |-> "Ok", val |-> v]
InvalidKey(msg) == [tag |-> "InvalidKey", val |-> <<msg>>]
BackendError(cause) == [tag |-> "BackendError", val |-> <<cause>>]

\* Err(RedisError), the failure of a call into the redis crate.
RedisError(kind) == [tag |-> "RedisError", val |-> <<kind>>]

Usize(n) == [tag |-> "Usize", val |-> <<n>>]
Bool(b) == [tag |-> "Bool", val |-> <<b>>]
Unit == <<>>

\* ------------------------------------------------------------------ lib.rs: validate_key

AsciiLower == {"a", "b", "c", "d", "e", "f", "g", "h", "i", "j", "k", "l", "m",
               "n", "o", "p", "q", "r", "s", "t", "u", "v", "w", "x", "y", "z"}
AsciiUpper == {"A", "B", "C", "D", "E", "F", "G", "H", "I", "J", "K", "L", "M",
               "N", "O", "P", "Q", "R", "S", "T", "U", "V", "W", "X", "Y", "Z"}
AsciiDigit == {"0", "1", "2", "3", "4", "5", "6", "7", "8", "9"}

\* char::is_alphanumeric, restricted to the characters of the model: true of
\* every ASCII letter and digit and of the non-ASCII letter.
is_alphanumeric(c) == c \in AsciiLower \cup AsciiUpper \cup AsciiDigit \cup {"U+00E9"}

\* char::is_ascii_alphanumeric
is_ascii_alphanumeric(c) == c \in AsciiLower \cup AsciiUpper \cup AsciiDigit

\* str::is_empty
is_empty(s) == Len(s) = 0

\* str::starts_with(char) / str::ends_with(char)
starts_with(s, c) == Len(s) > 0 /\ s[1] = c
ends_with(s, c) == Len(s) > 0 /\ s[Len(s)] = c

\* str::split(char): the pieces between the delimiters, in order; a string
\* without the delimiter (the empty string too) is one piece.
RECURSIVE split(_, _)
split(s, d) ==
    IF \A i \in 1 .. Len(s) : s[i] # d
    THEN <<s>>
    ELSE LET i == CHOOSE i \in 1 .. Len(s) :
                      s[i] = d /\ \A j \in 1 .. (i - 1) : s[j] # d
         IN <<SubSeq(s, 1, i - 1)>> \o split(SubSeq(s, i + 1, Len(s)), d)

\* Variant: the character test done with char::is_alphanumeric, which also
\* accepts letters outside ASCII.
key_char_ok_unicode(c) == is_alphanumeric(c) \/ c = ":" \/ c = "_"

\* The character test of validate_key's last check.
key_char_ok(c) == is_ascii_alphanumeric(c) \/ c = ":" \/ c = "_"

\* Variant: only the character check is made; the checks on emptiness, on
\* the ends and on the segments are left out.
validate_key_chars_only(key) ==
    IF ~(\A n \in 1 .. Len(key) : key_char_ok(key[n]))
    THEN InvalidKey("Key contains invalid characters")
    ELSE Ok(Unit)

\* Stash::validate_key
validate_key(key) ==
    IF is_empty(key)
    THEN InvalidKey("Key must not be empty")
    ELSE IF starts_with(key, ":") \/ ends_with(key, ":")
    THEN InvalidKey("Key must not start or end with ':'")
    ELSE IF \E n \in 1 .. Len(split(key, ":")) : is_empty(split(key, ":")[n])
    THEN InvalidKey("Key must not contain empty segments")
    ELSE IF ~(\A n \in 1 .. Len(key) : key_char_ok(key[n]))
    THEN InvalidKey("Key contains invalid characters")
    ELSE Ok(Unit)

\* ------------------------------------------------------------------ local.rs: the map

\* HashMap::new
EmptyMap == [x \in {} |-> ""]

\* HashMap::get(..).map(to_owned)
HashMapGet(m, k) == IF k \in DOMAIN m THEN Some(m[k]) ELSE None

\* Variant: an insert that keeps the entry of a key already present
\* (entry(k).or_insert(v)).
HashMapInsertKeepOld(m, k, v) ==
    [map |-> [x \in (DOMAIN m) \cup {k} |-> IF x \in DOMAIN m THEN m[x] ELSE v],
     ret |-> HashMapGet(m, k)]

\* HashMap::insert: the new map and the value it replaced
HashMapInsert(m, k, v) ==
    [map |-> [x \in (DOMAIN m) \cup {k} |-> IF x = k THEN v ELSE m[x]],
     ret |-> HashMapGet(m, k)]

\* HashMap::remove: the new map and the value it removed
HashMapRemove(m, k) ==
    [map |-> [x \in (DOMAIN m) \ {k} |-> m[x]],
     ret |-> HashMapGet(m, k)]

\* HashMap::len / HashMap::is_empty
HashMapLen(m) == Cardinality(DOMAIN m)
HashMapIsEmpty(m) == DOMAIN m = {}

\* ------------------------------------------------------------------ state

VARIABLES
    map,        \* LocalStash.0: the HashMap behind the mutex
    lock,       \* the mutex's owner: None, or Some(task)
    waiters,    \* tasks suspended in lock().await, in arrival order
    pc,         \* per task: "idle", "waiting", "locked", "accessed"
    cur,        \* per task: the index in calls of its call in progress
    ret,        \* per task: the value its call in progress will return
    calls,      \* history of LocalStash calls, in invocation order
    lin,        \* indices of calls, in the order they took effect
    remote,     \* the keyspace of the Redis server
    rcalls,     \* history of RedisStash calls
    vkey,       \* SpecKey: the string under validation
    vres,       \* SpecKey: the validator's answer
    cargs,      \* SpecConnect: the arguments of RedisStash::connect
    conn        \* SpecConnect: the URL connect built and what came of it

vars == <<map, lock, waiters, pc, cur, ret, calls, lin, remote, rcalls, vkey, vres,
          cargs, conn>>
localVars == <<map, lock, waiters, pc, cur, ret, calls, lin>>
redisVars == <<remote, rcalls>>
keyVars == <<vkey, vres>>
connVars == <<cargs, conn>>

Pending == [tag |-> "Pending", val |-> <<>>]

\* No call of RedisStash::connect is being modelled.
NoArgs == <<>>

FetchOp(k) == [kind |-> "fetch", key |-> k, val |-> ""]
StashOp(k, v) == [kind |-> "stash", key |-> k, val |-> v]
DeleteOp(k) == [kind |-> "delete", key |-> k, val |-> ""]
LenOp == [kind |-> "len", key |-> <<>>, val |-> ""]
IsEmptyOp == [kind |-> "is_empty", key |-> <<>>, val |-> ""]

\* Calls that have returned.
Returned == {i \in 1 .. Len(calls) : calls[i].res.tag # "Pending"}

\* The callers stop after MaxCalls calls.
Budget == Len(calls) + Len(rcalls) < MaxCalls

Init ==
    /\ map = EmptyMap
    /\ lock = None
    /\ waiters = <<>>
    /\ pc = [t \in Tasks |-> "idle"]
    /\ cur = [t \in Tasks |-> 0]
    /\ ret = [t \in Tasks |-> Pending]
    /\ calls = <<>>
    /\ lin = <<>>
    /\ remote = EmptyMap
    /\ rcalls = <<>>
    /\ vkey = <<>>
    /\ vres = Pending
    /\ cargs = NoArgs
    /\ conn = Pending

\* ------------------------------------------------------------------ local.rs: the mutex

\* Variant: the caller takes the lock whether or not another task holds it.
MutexLockUnchecked(t) ==
    /\ lock' = Some(t)
    /\ waiters' = waiters
    /\ pc' = [pc EXCEPT ![t] = "locked"]

\* tokio Mutex::lock().await, first poll: the caller takes the lock when it
\* is free and otherwise joins the FIFO wait queue and suspends.
MutexLock(t) ==
    IF lock = None
    THEN /\ lock' = Some(t)
         /\ waiters' = waiters
         /\ pc' = [pc EXCEPT ![t] = "locked"]
    ELSE /\ lock' = lock
         /\ waiters' = Append(waiters, t)
         /\ pc' = [pc EXCEPT ![t] = "waiting"]

\* Variant: the lock becomes free and no suspended task is woken.
MutexUnlockNoWake(t) ==
    /\ lock' = None
    /\ waiters' = waiters
    /\ pc' = [pc EXCEPT ![t] = "idle"]

\* Variant: the lock passes to the task that has waited least.
MutexUnlockLifo(t) ==
    IF waiters = <<>>
    THEN /\ lock' = None
         /\ waiters' = waiters
         /\ pc' = [pc EXCEPT ![t] = "idle"]
    ELSE /\ lock' = Some(waiters[Len(waiters)])
         /\ waiters' = SubSeq(waiters, 1, Len(waiters) - 1)
         /\ pc' = [pc EXCEPT ![t] = "idle", ![waiters[Len(waiters)]] = "locked"]

\* Drop of the MutexGuard as the call returns: the lock passes to the
\* longest-waiting task, or becomes free.
MutexUnlock(t) ==
    IF waiters = <<>>
    THEN /\ lock' = None
         /\ waiters' = waiters
         /\ pc' = [pc EXCEPT ![t] = "idle"]
    ELSE /\ lock' = Some(Head(waiters))
         /\ waiters' = Tail(waiters)
         /\ pc' = [pc EXCEPT ![t] = "idle", ![Head(waiters)] = "locked"]

\* ------------------------------------------------------------------ local.rs: the calls

\* A call by task t enters the history; its result is pending. A call is
\* entered at its first poll, which runs it up to lock().await; before
\* holds the calls that had returned by then. pre and post are the map just
\* before and just after the step at which the call takes effect (until
\* then, the map as it was when the call began).
Invoke(t, op) ==
    /\ calls' = Append(calls, [task |-> t, op |-> op, before |-> Returned,
                               res |-> Pending, pre |-> map, post |-> map])
    /\ cur' = [cur EXCEPT ![t] = Len(calls) + 1]

\* LocalStash::fetch, up to lock().await
LocalFetch(t, k) ==
    /\ pc[t] = "idle"
    /\ Budget
    /\ Invoke(t, FetchOp(k))
    /\ MutexLock(t)
    /\ UNCHANGED <<map, ret, lin, redisVars, keyVars, connVars>>

\* Variant: stash goes for the lock without validating its key, as fetch
\* and delete do.
LocalStashUnvalidated(t, k, v) ==
    /\ pc[t] = "idle"
    /\ Budget
    /\ Invoke(t, StashOp(k, v))
    /\ MutexLock(t)
    /\ UNCHANGED <<map, ret, lin, redisVars, keyVars, connVars>>

\* LocalStash::stash, up to lock().await: an invalid key returns the
\* validator's error at once, before the lock is asked for.
LocalStash(t, k, v) ==
    /\ pc[t] = "idle"
    /\ Budget
    /\ UNCHANGED <<map, ret, redisVars, keyVars, connVars>>
    /\ IF validate_key(k).tag = "Ok"
       THEN /\ Invoke(t, StashOp(k, v))
            /\ MutexLock(t)
            /\ UNCHANGED lin
       ELSE /\ calls' = Append(calls, [task |-> t, op |-> StashOp(k, v),
                                       before |-> Returned, res |-> validate_key(k),
                                       pre |-> map, post |-> map'])
            /\ lin' = Append(lin, Len(calls) + 1)
            /\ UNCHANGED <<lock, waiters, pc, cur>>

\* Variant: delete validates its key as stash does and fails on a malformed
\* one.
LocalDeleteValidated(t, k) ==
    /\ pc[t] = "idle"
    /\ Budget
    /\ UNCHANGED <<map, ret, redisVars, keyVars, connVars>>
    /\ IF validate_key(k).tag = "Ok"
       THEN /\ Invoke(t, DeleteOp(k))
            /\ MutexLock(t)
            /\ UNCHANGED lin
       ELSE /\ calls' = Append(calls, [task |-> t, op |-> DeleteOp(k),
                                       before |-> Returned, res |-> validate_key(k),
                                       pre |-> map, post |-> map'])
            /\ lin' = Append(lin, Len(calls) + 1)
            /\ UNCHANGED <<lock, waiters, pc, cur>>

\* LocalStash::delete, up to lock().await
LocalDelete(t, k) ==
    /\ pc[t] = "idle"
    /\ Budget
    /\ Invoke(t, DeleteOp(k))
    /\ MutexLock(t)
    /\ UNCHANGED <<map, ret, lin, redisVars, keyVars, connVars>>

\* LocalStash::len, up to lock().await
LocalLen(t) ==
    /\ pc[t] = "idle"
    /\ Budget
    /\ Invoke(t, LenOp)
    /\ MutexLock(t)
    /\ UNCHANGED <<map, ret, lin, redisVars, keyVars, connVars>>

\* LocalStash::is_empty, up to lock().await
LocalIsEmpty(t) ==
    /\ pc[t] = "idle"
    /\ Budget
    /\ Invoke(t, IsEmptyOp)
    /\ MutexLock(t)
    /\ UNCHANGED <<map, ret, lin, redisVars, keyVars, connVars>>

\* What each call does with the map once it holds the guard: the map it
\* leaves and the value it returns.
\* Variant: fetch takes the entry out of the map (remove for get).
FetchAccessTakes(m, k) ==
    [map |-> HashMapRemove(m, k).map, ret |-> Ok(HashMapRemove(m, k).ret)]
FetchAccess(m, k) == [map |-> m, ret |-> Ok(HashMapGet(m, k))]
\* Variant: the value insert returns is dropped and None returned.
StashAccessNoPrevious(m, k, v) ==
    [map |-> HashMapInsert(m, k, v).map, ret |-> Ok(None)]
StashAccess(m, k, v) ==
    [map |-> HashMapInsert(m, k, v).map, ret |-> Ok(HashMapInsert(m, k, v).ret)]
\* Variant: delete reads the entry with get and leaves it in the map.
DeleteAccessGetOnly(m, k) == [map |-> m, ret |-> Ok(HashMapGet(m, k))]
DeleteAccess(m, k) ==
    [map |-> HashMapRemove(m, k).map, ret |-> Ok(HashMapRemove(m, k).ret)]
LenAccess(m) == [map |-> m, ret |-> Usize(HashMapLen(m))]
IsEmptyAccess(m) == [map |-> m, ret |-> Bool(HashMapIsEmpty(m))]

MapAccess(m, op) ==
    CASE op.kind = "fetch" -> FetchAccess(m, op.key)
      [] op.kind = "stash" -> StashAccess(m, op.key, op.val)
      [] op.kind = "delete" -> DeleteAccess(m, op.key)
      [] op.kind = "len" -> LenAccess(m)
      [] op.kind = "is_empty" -> IsEmptyAccess(m)

\* Variant: the call works on the map as it was when the call began, not as
\* it is under the lock, and writes that back.
AccessStale(t) ==
    /\ pc[t] = "locked"
    /\ lock = Some(t)
    /\ map' = MapAccess(calls[cur[t]].pre, calls[cur[t]].op).map
    /\ ret' = [ret EXCEPT ![t] = MapAccess(calls[cur[t]].pre, calls[cur[t]].op).ret]
    /\ pc' = [pc EXCEPT ![t] = "accessed"]
    /\ lin' = Append(lin, cur[t])
    /\ calls' = [calls EXCEPT ![cur[t]].pre = map, ![cur[t]].post = map']
    /\ UNCHANGED <<lock, waiters, cur, redisVars, keyVars, connVars>>

\* The task that owns the lock performs its one map access.
Access(t) ==
    /\ pc[t] = "locked"
    /\ lock = Some(t)
    /\ map' = MapAccess(map, calls[cur[t]].op).map
    /\ ret' = [ret EXCEPT ![t] = MapAccess(map, calls[cur[t]].op).ret]
    /\ pc' = [pc EXCEPT ![t] = "accessed"]
    /\ lin' = Append(lin, cur[t])
    /\ calls' = [calls EXCEPT ![cur[t]].pre = map, ![cur[t]].post = map']
    /\ UNCHANGED <<lock, waiters, cur, redisVars, keyVars, connVars>>

\* The guard is dropped and the call returns its value.
Return(t) ==
    /\ pc[t] = "accessed"
    /\ MutexUnlock(t)
    /\ calls' = [calls EXCEPT ![cur[t]].res = ret[t]]
    /\ cur' = [cur EXCEPT ![t] = 0]
    /\ ret' = [ret EXCEPT ![t] = Pending]
    /\ UNCHANGED <<map, lin, redisVars, keyVars, connVars>>

LocalNext ==
    \/ \E t \in Tasks, k \in KeyPool : LocalFetch(t, k)
    \/ \E t \in Tasks, k \in KeyPool, v \in Values : LocalStash(t, k, v)
    \/ \E t \in Tasks, k \in KeyPool : LocalDelete(t, k)
    \/ \E t \in Tasks : LocalLen(t)
    \/ \E t \in Tasks : LocalIsEmpty(t)
    \/ \E t \in Tasks : Access(t)
    \/ \E t \in Tasks : Return(t)

\* ------------------------------------------------------------------ redis.rs: the remote side

\* Redis commands the adapter sends over the connection.
GetCmd(k) == [name |-> "GET", key |-> k, val |-> ""]
SetCmd(k, v) == [name |-> "SET", key |-> k, val |-> v]
DelCmd(k) == [name |-> "DEL", key |-> k, val |-> ""]

\* Replies of the Redis protocol.
Nil == [type |-> "Nil", val |-> <<>>]
Okay == [type |-> "Okay", val |-> <<>>]
BulkString(v) == [type |-> "BulkString", val |-> <<v>>]
IntReply(n) == [type |-> "Int", val |-> <<n>>]

\* AsyncCommands::get: GET key replies the stored string, or nil.
RedisGet(db, k) ==
    [db |-> db,
     reply |-> IF k \in DOMAIN db THEN BulkString(db[k]) ELSE Nil]

\* AsyncCommands::set: SET key value stores the value and replies OK.
RedisSet(db, k, v) ==
    [db |-> [x \in (DOMAIN db) \cup {k} |-> IF x = k THEN v ELSE db[x]],
     reply |-> Okay]

\* AsyncCommands::del: DEL key removes the key and replies the number of
\* keys removed.
RedisDel(db, k) ==
    [db |-> [x \in (DOMAIN db) \ {k} |-> db[x]],
     reply |-> IF k \in DOMAIN db THEN IntReply(1) ELSE IntReply(0)]

RedisServer(db, cmd) ==
    CASE cmd.name = "GET" -> RedisGet(db, cmd.key)
      [] cmd.name = "SET" -> RedisSet(db, cmd.key, cmd.val)
      [] cmd.name = "DEL" -> RedisDel(db, cmd.key)

\* i64::to_string for the counts DEL replies.
to_string(n) == IF n = 0 THEN "0" ELSE "1"

\* Variant: the remote error is dropped and the call reports no value.
FromRedisErrorSwallowed(cause) == Ok(None)

\* impl From<RedisError> for StashError
FromRedisError(cause) == BackendError(cause)

\* The `?` after .await in fetch, stash and delete: an Err(RedisError) leaves
\* the call at once, converted by From; an Ok goes on as the call's value.
Try(r) == IF r.tag = "RedisError" THEN FromRedisError(r.val[1]) ELSE r

\* The conversion of a reply to the Option<String> the three calls ask for
\* (FromRedisValue): nil is None, a bulk string is Some of it, the status OK
\* is Some("OK"). An integer reply is, depending on the version of the redis
\* crate the build resolves, either Some of its decimal form or the error
\* "response type not string compatible": both outcomes are kept.
FromRedisValue(reply) ==
    CASE reply.type = "Nil" -> {Ok(None)}
      [] reply.type = "BulkString" -> {Ok(Some(reply.val[1]))}
      [] reply.type = "Okay" -> {Ok(Some("OK"))}
      [] reply.type = "Int" -> {Ok(Some(to_string(reply.val[1]))),
                                RedisError("TypeError")}

\* One command on the multiplexed connection, awaited: either the round
\* trip fails and nothing is applied, or the server applies the command and
\* its reply is converted.
RoundTrip(db, cmd) ==
    {[db |-> db, res |-> RedisError("IoError")]}
    \cup {[db |-> RedisServer(db, cmd).db, res |-> r] :
              r \in FromRedisValue(RedisServer(db, cmd).reply)}

\* ------------------------------------------------------------------ redis.rs: the calls

\* RedisStash::fetch
RedisFetch(k) ==
    /\ Budget
    /\ \E out \in RoundTrip(remote, GetCmd(k)) :
          /\ remote' = out.db
          /\ rcalls' = Append(rcalls, [op |-> FetchOp(k), pre |-> remote,
                                       post |-> remote', cmds |-> <<GetCmd(k)>>,
                                       raw |-> out.res, res |-> Try(out.res)])
    /\ UNCHANGED <<localVars, keyVars, connVars>>

\* Variant: stash sends its SET without validating the key, as fetch and
\* delete send their commands.
RedisStashUnvalidated(k, v) ==
    /\ Budget
    /\ \E out \in RoundTrip(remote, SetCmd(k, v)) :
          /\ remote' = out.db
          /\ rcalls' = Append(rcalls, [op |-> StashOp(k, v), pre |-> remote,
                                       post |-> remote', cmds |-> <<SetCmd(k, v)>>,
                                       raw |-> out.res, res |-> Try(out.res)])
    /\ UNCHANGED <<localVars, keyVars, connVars>>

\* RedisStash::stash
RedisStash(k, v) ==
    /\ Budget
    /\ IF validate_key(k).tag = "Ok"
       THEN \E out \in RoundTrip(remote, SetCmd(k, v)) :
               /\ remote' = out.db
               /\ rcalls' = Append(rcalls, [op |-> StashOp(k, v), pre |-> remote,
                                            post |-> remote',
                                            cmds |-> <<SetCmd(k, v)>>,
                                            raw |-> out.res, res |-> Try(out.res)])
       ELSE /\ remote' = remote
            /\ rcalls' = Append(rcalls, [op |-> StashOp(k, v), pre |-> remote,
                                         post |-> remote', cmds |-> <<>>,
                                         raw |-> Pending,
                                         res |-> validate_key(k)])
    /\ UNCHANGED <<localVars, keyVars, connVars>>

\* RedisStash::delete
RedisDelete(k) ==
    /\ Budget
    /\ \E out \in RoundTrip(remote, DelCmd(k)) :
          /\ remote' = out.db
          /\ rcalls' = Append(rcalls, [op |-> DeleteOp(k), pre |-> remote,
                                       post |-> remote', cmds |-> <<DelCmd(k)>>,
                                       raw |-> out.res, res |-> Try(out.res)])
    /\ UNCHANGED <<localVars, keyVars, connVars>>

RedisNext ==
    \/ \E k \in KeyPool : RedisFetch(k)
    \/ \E k \in KeyPool, v \in Values : RedisStash(k, v)
    \/ \E k \in KeyPool : RedisDelete(k)

\* ------------------------------------------------------------------ specifications

\* Tasks calling both backends.
Next == LocalNext \/ RedisNext

Spec == Init /\ [][Next]_vars

\* Fair scheduling and fair lock hand-off: the runtime keeps polling a task
\* that has been woken, so the task that owns the lock eventually performs
\* its access and eventually returns, which hands the lock on (MutexUnlock).
Fairness == \A t \in Tasks : WF_vars(Access(t)) /\ WF_vars(Return(t))

FairSpec == Init /\ [][Next]_vars /\ Fairness

\* The in-memory backend shared by one task more than NumTasks, so that a
\* task can find both the lock taken and another task already waiting for
\* it. The callers use one well-formed and one malformed key.
Crowd == 1 .. (NumTasks + 1)
CrowdKeys == {KeyA, KeyLead}
CrowdValues == {"v1"}

InitCrowd ==
    /\ map = EmptyMap
    /\ lock = None
    /\ waiters = <<>>
    /\ pc = [t \in Crowd |-> "idle"]
    /\ cur = [t \in Crowd |-> 0]
    /\ ret = [t \in Crowd |-> Pending]
    /\ calls = <<>>
    /\ lin = <<>>
    /\ remote = EmptyMap
    /\ rcalls = <<>>
    /\ vkey = <<>>
    /\ vres = Pending
    /\ cargs = NoArgs
    /\ conn = Pending

NextCrowd ==
    \/ \E t \in Crowd, k \in CrowdKeys : LocalFetch(t, k)
    \/ \E t \in Crowd, k \in CrowdKeys, v \in CrowdValues : LocalStash(t, k, v)
    \/ \E t \in Crowd, k \in CrowdKeys : LocalDelete(t, k)
    \/ \E t \in Crowd : LocalLen(t)
    \/ \E t \in Crowd : LocalIsEmpty(t)
    \/ \E t \in Crowd : Access(t)
    \/ \E t \in Crowd : Return(t)

SpecCrowd == InitCrowd /\ [][NextCrowd]_vars

\* The key validator alone, on every string of at most MaxKeyLen characters.
Strings(n) == UNION {[1 .. m -> Alphabet] : m \in 0 .. n}

InitKey ==
    /\ map = EmptyMap
    /\ lock = None
    /\ waiters = <<>>
    /\ pc = [t \in Tasks |-> "idle"]
    /\ cur = [t \in Tasks |-> 0]
    /\ ret = [t \in Tasks |-> Pending]
    /\ calls = <<>>
    /\ lin = <<>>
    /\ remote = EmptyMap
    /\ rcalls = <<>>
    /\ vkey \in Strings(MaxKeyLen)
    /\ vres = Pending
    /\ cargs = NoArgs
    /\ conn = Pending

\* A caller pre-validates a key.
Validate ==
    /\ vres = Pending
    /\ vres' = validate_key(vkey)
    /\ UNCHANGED <<vkey, localVars, redisVars, connVars>>

NextKey == Validate

SpecKey == InitKey /\ [][NextKey]_vars

\* ------------------------------------------------------------------ redis.rs: connect

\* Arguments connect is exercised with. Host names, user names and passwords
\* are sequences of characters, as the URL they end up in is; the user name
\* may be empty, as it is for password-only authentication.
Hosts == {<<"h">>, <<"r", "1">>}
Ports == {0, 6379, 65535}
CredentialsPool ==
    {[username |-> <<"u">>, password |-> <<"p">>],
     [username |-> <<>>, password |-> <<"p", "w">>]}
ConnectArgs ==
    [host : Hosts,
     port : Ports,
     credentials : {None} \cup {Some(c) : c \in CredentialsPool},
     database_index : {None} \cup {Some(n) : n \in 0 .. MaxDbIndex}]

\* Display for u16 and u32, as format!("{}") applies it: decimal digits,
\* most significant first, no sign, no padding.
DigitChar(d) ==
    CASE d = 0 -> "0" [] d = 1 -> "1" [] d = 2 -> "2" [] d = 3 -> "3"
      [] d = 4 -> "4" [] d = 5 -> "5" [] d = 6 -> "6" [] d = 7 -> "7"
      [] d = 8 -> "8" [] d = 9 -> "9"

RECURSIVE fmt_uint(_)
fmt_uint(n) ==
    IF n < 10 THEN <<DigitChar(n)>>
    ELSE Append(fmt_uint(n \div 10), DigitChar(n % 10))

Scheme == <<"r", "e", "d", "i", "s", ":", "/", "/">>

\* The (Some, None) arm with the default database of the (None, None) arm
\* appended to it.
connect_url_always_db(host, port, credentials, database_index) ==
    CASE credentials # None /\ database_index # None ->
            Scheme \o credentials[1].username \o <<":">> \o credentials[1].password
                \o <<"@">> \o host \o <<":">> \o fmt_uint(port)
                \o <<"/">> \o fmt_uint(database_index[1])
      [] credentials # None /\ database_index = None ->
            Scheme \o credentials[1].username \o <<":">> \o credentials[1].password
                \o <<"@">> \o host \o <<":">> \o fmt_uint(port) \o <<"/", "0">>
      [] credentials = None /\ database_index # None ->
            Scheme \o host \o <<":">> \o fmt_uint(port)
                \o <<"/">> \o fmt_uint(database_index[1])
      [] credentials = None /\ database_index = None ->
            Scheme \o host \o <<":">> \o fmt_uint(port) \o <<"/", "0">>

\* The connection string of RedisStash::connect: one format! per arm of the
\* match on (credentials, database_index).
connect_url(host, port, credentials, database_index) ==
    CASE credentials # None /\ database_index # None ->
            Scheme \o credentials[1].username \o <<":">> \o credentials[1].password
                \o <<"@">> \o host \o <<":">> \o fmt_uint(port)
                \o <<"/">> \o fmt_uint(database_index[1])
      [] credentials # None /\ database_index = None ->
            Scheme \o credentials[1].username \o <<":">> \o credentials[1].password
                \o <<"@">> \o host \o <<":">> \o fmt_uint(port)
      [] credentials = None /\ database_index # None ->
            Scheme \o host \o <<":">> \o fmt_uint(port)
                \o <<"/">> \o fmt_uint(database_index[1])
      [] credentials = None /\ database_index = None ->
            Scheme \o host \o <<":">> \o fmt_uint(port) \o <<"/", "0">>

\* connect_with_string: Client::open and the connection attempt either give
\* a RedisStash or fail with the RedisError, which is returned as it is.
connect_with_string(url) ==
    {[url |-> url, res |-> Ok(<<"RedisStash">>)],
     [url |-> url, res |-> RedisError("IoError")]}

InitConnect ==
    /\ map = EmptyMap
    /\ lock = None
    /\ waiters = <<>>
    /\ pc = [t \in Tasks |-> "idle"]
    /\ cur = [t \in Tasks |-> 0]
    /\ ret = [t \in Tasks |-> Pending]
    /\ calls = <<>>
    /\ lin = <<>>
    /\ remote = EmptyMap
    /\ rcalls = <<>>
    /\ vkey = <<>>
    /\ vres = Pending
    /\ cargs \in ConnectArgs
    /\ conn = Pending

\* RedisStash::connect(host, port, credentials, database_index)
Connect ==
    /\ conn = Pending
    /\ conn' \in connect_with_string(
                    connect_url(cargs.host, cargs.port, cargs.credentials,
                                cargs.database_index))
    /\ UNCHANGED <<cargs, localVars, redisVars, keyVars>>

NextConnect == Connect

SpecConnect == InitConnect /\ [][NextConnect]_vars

\* ------------------------------------------------------------------ vocabulary of the claims

\* The key grammar: key := segment (":" segment)*, segment := [A-Za-z0-9_]+
SegmentChar(c) == c \in AsciiLower \cup AsciiUpper \cup AsciiDigit \cup {"_"}
IsSegment(s) == Len(s) >= 1 /\ \A i \in 1 .. Len(s) : SegmentChar(s[i])
RECURSIVE IsKey(_)
IsKey(s) ==
    \/ IsSegment(s)
    \/ \E i \in 2 .. (Len(s) - 1) :
          /\ s[i] = ":"
          /\ IsSegment(SubSeq(s, 1, i - 1))
          /\ IsKey(SubSeq(s, i + 1, Len(s)))

\* The value a store holds for a key: Some of it, or None.
Held(m, k) == IF k \in DOMAIN m THEN <<m[k]>> ELSE <<>>

\* The store m with k bound to v and every other entry as it was.
IsOverwrite(m2, m, k, v) ==
    /\ DOMAIN m2 = (DOMAIN m) \cup {k}
    /\ m2[k] = v
    /\ \A x \in (DOMAIN m) \ {k} : m2[x] = m[x]

\* The store m without k and every other entry as it was.
IsRemoval(m2, m, k) ==
    /\ DOMAIN m2 = (DOMAIN m) \ {k}
    /\ \A x \in DOMAIN m2 : m2[x] = m[x]

CallIds == 1 .. Len(calls)
IsStash(c) == calls[c].op.kind = "stash"
IsFetch(c) == calls[c].op.kind = "fetch"
IsDelete(c) == calls[c].op.kind = "delete"
KeyOf(c) == calls[c].op.key
ValOf(c) == calls[c].op.val
ResOf(c) == calls[c].res

\* Call b had returned when call c was invoked.
Precedes(b, c) == b \in calls[c].before

\* Calls a and b overlap in time.
Overlap(a, b) == a # b /\ ~Precedes(a, b) /\ ~Precedes(b, a)

\* The calls that have taken effect, and the place of each in that order.
Effected == {lin[i] : i \in 1 .. Len(lin)}
PosOf(c) == CHOOSE i \in 1 .. Len(lin) : lin[i] = c

\* Call f is the call that takes effect right after call c.
NextAfter(c, f) ==
    /\ c \in Effected
    /\ f \in Effected
    /\ PosOf(f) = PosOf(c) + 1

\* The recorded stores are the stores the map went through: each call found
\* the map as the call before it left it, the first found it empty, and the
\* map now is as the last one left it.
StoresChained ==
    /\ \A i \in 1 .. Len(lin) :
          calls[lin[i]].pre = IF i = 1 THEN EmptyMap ELSE calls[lin[i - 1]].post
    /\ map = IF lin = <<>> THEN EmptyMap ELSE calls[lin[Len(lin)]].post

\* ------------------------------------------------------------------ C7

\* The ways the validator's contract lists for a key to be malformed. A
\* segment is empty when the string is, when a delimiter stands at an end
\* and when two delimiters are adjacent.
HasEmptySegment(s) ==
    \/ Len(s) = 0
    \/ s[1] = ":"
    \/ s[Len(s)] = ":"
    \/ \E i \in 1 .. (Len(s) - 1) : s[i] = ":" /\ s[i + 1] = ":"
HasForeignChar(s) == \E i \in 1 .. Len(s) : ~SegmentChar(s[i]) /\ s[i] # ":"
StartsOrEndsWithDelimiter(s) == Len(s) > 0 /\ (s[1] = ":" \/ s[Len(s)] = ":")
Malformed(s) ==
    \/ Len(s) = 0
    \/ StartsOrEndsWithDelimiter(s)
    \/ HasEmptySegment(s)
    \/ HasForeignChar(s)

NoMutationBetween(s, f, k) ==
    \A m \in CallIds \ {s} :
        ((IsStash(m) \/ IsDelete(m)) /\ KeyOf(m) = k) =>
            (Precedes(m, s) \/ Precedes(f, m))

\* C1: in-memory backend: a stash of a well-formed key succeeds, and a
\* fetch of that key issued after the stash returned, with no other stash or
\* delete of the key in between, returns Some of the stashed value.
C1_StashThenFetch ==
    \A s \in CallIds :
        (IsStash(s) /\ IsKey(KeyOf(s)) /\ s \in Returned) =>
            /\ ResOf(s).tag = "Ok"
            /\ \A f \in Returned :
                  (/\ IsFetch(f)
                   /\ KeyOf(f) = KeyOf(s)
                   /\ Precedes(s, f)
                   /\ NoMutationBetween(s, f, KeyOf(s)))
                  => ResOf(f) = Ok(Some(ValOf(s)))

\* A fetch has returned the value of the stash before it, which replaced
\* another value of the key.
C1_Witness ==
    \E s \in Returned, f \in Returned :
        /\ IsStash(s) /\ IsKey(KeyOf(s))
        /\ ResOf(s).tag = "Ok" /\ ResOf(s).val # None
        /\ ResOf(s).val # Some(ValOf(s))
        /\ IsFetch(f) /\ KeyOf(f) = KeyOf(s)
        /\ Precedes(s, f)
        /\ NoMutationBetween(s, f, KeyOf(s))
        /\ ResOf(f) = Ok(Some(ValOf(s)))

\* ------------------------------------------------------------------ C2

\* C2: in-memory backend: a stash of a well-formed key returns the value
\* the store held for the key just before it took effect (None when
\* absent), leaves the store with the key bound to the new value, one entry
\* more only when the key was absent and every other entry untouched, and
\* the fetch of the key that takes effect next returns Some of the value.
C2_StashReturnsPrevious ==
    /\ StoresChained
    /\ \A c \in Effected :
          (IsStash(c) /\ IsKey(KeyOf(c))) =>
              /\ c \in Returned => ResOf(c) = Ok(Held(calls[c].pre, KeyOf(c)))
              /\ IsOverwrite(calls[c].post, calls[c].pre, KeyOf(c), ValOf(c))
              /\ Cardinality(DOMAIN calls[c].post) =
                     Cardinality(DOMAIN calls[c].pre)
                     + (IF KeyOf(c) \in DOMAIN calls[c].pre THEN 0 ELSE 1)
              /\ \A f \in Returned :
                    (IsFetch(f) /\ KeyOf(f) = KeyOf(c) /\ NextAfter(c, f))
                    => ResOf(f) = Ok(Some(ValOf(c)))

\* A stash has returned the value it replaced, and the fetch that took
\* effect next has returned.
C2_Witness ==
    \E c \in Returned, f \in Returned :
        /\ IsStash(c) /\ IsKey(KeyOf(c))
        /\ ResOf(c).tag = "Ok" /\ ResOf(c).val # None
        /\ ResOf(c).val # Some(ValOf(c))
        /\ IsFetch(f) /\ KeyOf(f) = KeyOf(c) /\ NextAfter(c, f)

\* ------------------------------------------------------------------ C3

RCallIds == 1 .. Len(rcalls)

\* The recorded remote keyspaces are those the server went through.
RemoteChained ==
    /\ \A i \in RCallIds :
          rcalls[i].pre = IF i = 1 THEN EmptyMap ELSE rcalls[i - 1].post
    /\ remote = IF rcalls = <<>> THEN EmptyMap ELSE rcalls[Len(rcalls)].post

\* C3: on both backends a stash of a malformed key fails with InvalidKey
\* before any mutation. In memory: the call returns at once, the map and its
\* size are as before, and every fetch of the key taking effect afterwards
\* returns None. Networked: no command is issued, the remote keyspace is as
\* before, and a later fetch of the key finds no entry (it returns None
\* unless its own round trip fails).
C3_InvalidKeyNoMutation ==
    /\ StoresChained
    /\ RemoteChained
    /\ \A c \in CallIds :
          (IsStash(c) /\ ~IsKey(KeyOf(c))) =>
              /\ ResOf(c).tag = "InvalidKey"
              /\ c \in Effected
              /\ calls[c].post = calls[c].pre
              /\ Cardinality(DOMAIN calls[c].post) = Cardinality(DOMAIN calls[c].pre)
              /\ \A f \in Returned :
                    (IsFetch(f) /\ KeyOf(f) = KeyOf(c) /\ PosOf(f) > PosOf(c))
                    => ResOf(f) = Ok(None)
    /\ \A i \in RCallIds :
          (rcalls[i].op.kind = "stash" /\ ~IsKey(rcalls[i].op.key)) =>
              /\ rcalls[i].res.tag = "InvalidKey"
              /\ rcalls[i].cmds = <<>>
              /\ rcalls[i].post = rcalls[i].pre
              /\ \A j \in RCallIds :
                    (/\ j > i
                     /\ rcalls[j].op.kind = "fetch"
                     /\ rcalls[j].op.key = rcalls[i].op.key
                     /\ rcalls[j].res.tag = "Ok")
                    => rcalls[j].res = Ok(None)

\* A malformed stash has failed on a non-empty map, and one has failed on
\* the networked backend.
C3_Witness ==
    /\ \E c \in CallIds :
          /\ IsStash(c) /\ ~IsKey(KeyOf(c))
          /\ ResOf(c).tag = "InvalidKey"
          /\ calls[c].pre # EmptyMap
    /\ \E i \in RCallIds :
          /\ rcalls[i].op.kind = "stash" /\ ~IsKey(rcalls[i].op.key)
          /\ rcalls[i].res.tag = "InvalidKey"

\* ------------------------------------------------------------------ C4

\* C4: in-memory backend: a delete of any key, well-formed or not, returns
\* None and leaves the store as it was when the key has no entry; when it
\* has one, the delete returns the stored value and removes that entry and
\* no other, and the fetch of the key that takes effect next returns None.
C4_DeleteReturnsRemoved ==
    /\ StoresChained
    /\ \A c \in Effected :
          IsDelete(c) =>
              /\ c \in Returned => ResOf(c) = Ok(Held(calls[c].pre, KeyOf(c)))
              /\ KeyOf(c) \notin DOMAIN calls[c].pre => calls[c].post = calls[c].pre
              /\ IsRemoval(calls[c].post, calls[c].pre, KeyOf(c))
              /\ \A f \in Returned :
                    (IsFetch(f) /\ KeyOf(f) = KeyOf(c) /\ NextAfter(c, f))
                    => ResOf(f) = Ok(None)

\* A delete has returned the value of an entry and left another entry in
\* the store.
C4_Witness ==
    \E c \in Returned :
        /\ IsDelete(c)
        /\ ResOf(c).tag = "Ok" /\ ResOf(c).val # None
        /\ calls[c].post # EmptyMap

\* ------------------------------------------------------------------ C5

\* The calls from c0 on are a batch of stashes: every earlier call had
\* returned before any of them was invoked, each stashes a well-formed key,
\* the keys are pairwise distinct, and all have returned.
Batch(c0) == c0 .. Len(calls)
IsStashBatch(c0) ==
    /\ \A j \in 1 .. (c0 - 1) : \A c \in Batch(c0) : Precedes(j, c)
    /\ \A c \in Batch(c0) : IsStash(c) /\ IsKey(KeyOf(c)) /\ c \in Returned
    /\ \A c, d \in Batch(c0) : c # d => KeyOf(c) # KeyOf(d)

\* The store the batch started on: the one found by the first of its calls
\* to take effect.
StartStore(c0) == calls[lin[c0]].pre

\* C5: in-memory backend: stashes of pairwise distinct well-formed keys made
\* concurrently on a store that holds none of these keys all succeed, each
\* returning None, and once all have returned the store holds each key with
\* the value stashed for it, the entries it had before, and as many entries
\* more as there were calls.
C5_ConcurrentStashes ==
    /\ StoresChained
    /\ \A c0 \in CallIds :
          (/\ IsStashBatch(c0)
           /\ \A c \in Batch(c0) : KeyOf(c) \notin DOMAIN StartStore(c0))
          =>
              /\ \A c \in Batch(c0) : ResOf(c) = Ok(None)
              /\ \A c \in Batch(c0) : Held(map, KeyOf(c)) = Some(ValOf(c))
              /\ \A x \in DOMAIN StartStore(c0) :
                    Held(map, x) = Held(StartStore(c0), x)
              /\ Cardinality(DOMAIN map) =
                     Cardinality(DOMAIN StartStore(c0)) + Cardinality(Batch(c0))

\* Two tasks have stashed two keys in overlapping calls on a non-empty
\* store.
C5_Witness ==
    \E c0 \in CallIds :
        /\ IsStashBatch(c0)
        /\ \A c \in Batch(c0) : KeyOf(c) \notin DOMAIN StartStore(c0)
        /\ StartStore(c0) # EmptyMap
        /\ \E c, d \in Batch(c0) :
              Overlap(c, d) /\ calls[c].task # calls[d].task

\* ------------------------------------------------------------------ C6

\* The store as a sequential object: what one call does to it and returns.
SeqApply(m, op) ==
    CASE op.kind = "fetch" -> [map |-> m, res |-> Ok(Held(m, op.key))]
      [] op.kind = "stash" ->
            IF IsKey(op.key)
            THEN [map |-> (op.key :> op.val) @@ m, res |-> Ok(Held(m, op.key))]
            ELSE [map |-> m, res |-> InvalidKey("")]
      [] op.kind = "delete" ->
            [map |-> [x \in (DOMAIN m) \ {op.key} |-> m[x]],
             res |-> Ok(Held(m, op.key))]
      [] op.kind = "len" -> [map |-> m, res |-> Usize(Cardinality(DOMAIN m))]
      [] op.kind = "is_empty" -> [map |-> m, res |-> Bool(DOMAIN m = {})]

\* The sequential store after the first i calls of the order lin.
RECURSIVE SeqStore(_)
SeqStore(i) ==
    IF i = 0 THEN EmptyMap ELSE SeqApply(SeqStore(i - 1), calls[lin[i]].op).map

\* Two results agree: the same kind, and the same value unless an error.
SameOutcome(r, e) == r.tag = e.tag /\ (r.tag # "InvalidKey" => r.val = e.val)

\* C6: in-memory backend: the order in which the calls take effect is a
\* linearization. It holds each call once and every call that has returned,
\* it keeps the order of calls that do not overlap, the value each call
\* returns is the one the sequential store returns at its place in the
\* order, each call takes the map from the sequential store before it to
\* the one after it in one step, and the map is the sequential store after
\* all of them.
C6_Linearizable ==
    /\ Returned \subseteq Effected
    /\ \A i, j \in 1 .. Len(lin) : lin[i] = lin[j] => i = j
    /\ \A c \in Effected : \A b \in calls[c].before :
          b \in Effected /\ PosOf(b) < PosOf(c)
    /\ \A i \in 1 .. Len(lin) :
          /\ calls[lin[i]].pre = SeqStore(i - 1)
          /\ calls[lin[i]].post = SeqStore(i)
          /\ lin[i] \in Returned =>
                SameOutcome(ResOf(lin[i]),
                            SeqApply(SeqStore(i - 1), calls[lin[i]].op).res)
    /\ map = SeqStore(Len(lin))

\* Two tasks' calls on one key have overlapped, a fetch and a stash, and
\* the fetch has returned the value of the stash.
C6_Witness ==
    \E c \in Returned, d \in Returned :
        /\ Overlap(c, d)
        /\ calls[c].task # calls[d].task
        /\ IsStash(c) /\ IsFetch(d)
        /\ KeyOf(c) = KeyOf(d)
        /\ ResOf(d) = Ok(Some(ValOf(c)))

\* ------------------------------------------------------------------ C8

\* C8: networked backend: a stash of a well-formed key issues one SET and
\* returns the value the remote service held for the key just before the
\* write, None if it held none.
C8_RedisStashReturnsPrevious ==
    \A i \in RCallIds :
        (rcalls[i].op.kind = "stash" /\ IsKey(rcalls[i].op.key)) =>
            /\ rcalls[i].cmds = <<SetCmd(rcalls[i].op.key, rcalls[i].op.val)>>
            /\ rcalls[i].res.tag = "Ok" =>
                  rcalls[i].res = Ok(Held(rcalls[i].pre, rcalls[i].op.key))

\* ------------------------------------------------------------------ C9

\* C9: networked backend: a delete returns the value the remote service
\* held for the key just before the command, None if it held none.
C9_RedisDeleteReturnsRemoved ==
    \A i \in RCallIds :
        (rcalls[i].op.kind = "delete" /\ rcalls[i].res.tag = "Ok") =>
            rcalls[i].res = Ok(Held(rcalls[i].pre, rcalls[i].op.key))

\* ------------------------------------------------------------------ C10

\* C10: in-memory backend: fetch and delete return Ok whatever the key and
\* the store, stash returns Ok on every well-formed key and InvalidKey on
\* every other, len and is_empty return their plain value, and no call
\* returns BackendError.
C10_OnlyInvalidKeyFromStash ==
    \A c \in Returned :
        /\ ResOf(c).tag # "BackendError"
        /\ (IsFetch(c) \/ IsDelete(c)) => ResOf(c).tag = "Ok"
        /\ IsStash(c) => ResOf(c).tag = IF IsKey(KeyOf(c)) THEN "Ok" ELSE "InvalidKey"
        /\ calls[c].op.kind = "len" => ResOf(c).tag = "Usize"
        /\ calls[c].op.kind = "is_empty" => ResOf(c).tag = "Bool"

\* A fetch and a delete of a malformed key have returned Ok and a stash of
\* it has failed.
C10_Witness ==
    \E f \in Returned, d \in Returned, s \in Returned :
        /\ IsFetch(f) /\ ~IsKey(KeyOf(f)) /\ ResOf(f).tag = "Ok"
        /\ IsDelete(d) /\ ~IsKey(KeyOf(d)) /\ ResOf(d).tag = "Ok"
        /\ IsStash(s) /\ ~IsKey(KeyOf(s)) /\ ResOf(s).tag = "InvalidKey"

\* ------------------------------------------------------------------ C11

\* The optional "username:password@" part of a connection string.
UserInfo(a) ==
    IF a.credentials = None THEN <<>>
    ELSE a.credentials[1].username \o <<":">> \o a.credentials[1].password \o <<"@">>

\* The optional "/database_index" part of a connection string.
DbSuffix(a) ==
    IF a.database_index # None THEN <<"/">> \o fmt_uint(a.database_index[1])
    ELSE IF a.credentials = None THEN <<"/", "0">>
    ELSE <<>>

\* C11: connect builds the connection string
\* redis://[username:password@]host:port[/database_index] from its arguments
\* alone: the credential part is there exactly when credentials are given;
\* the suffix is the explicit index when one is given, "/0" when neither
\* credentials nor index are given, and absent when credentials are given
\* without an index.
C11_ConnectionString ==
    conn # Pending =>
        conn.url = Scheme \o UserInfo(cargs) \o cargs.host \o <<":">>
                       \o fmt_uint(cargs.port) \o DbSuffix(cargs)

\* connect has run with credentials and no database index, on a port of
\* several digits.
C11_Witness ==
    /\ conn # Pending
    /\ cargs.credentials # None
    /\ cargs.database_index = None
    /\ cargs.port > 9

\* ------------------------------------------------------------------ C12

\* A fetch or a delete of the in-memory backend whose key is malformed.
MalformedLookup(c) == (IsFetch(c) \/ IsDelete(c)) /\ ~IsKey(KeyOf(c))

\* C12: in every reachable state of the in-memory backend every key in the
\* map satisfies the key grammar; so a fetch or a delete with a malformed
\* key never fails with InvalidKey, always returns None and leaves the map
\* as it was.
C12_StoredKeysWellFormed ==
    /\ \A k \in DOMAIN map : IsKey(k)
    /\ \A c \in CallIds :
          MalformedLookup(c) =>
              /\ ResOf(c) \in {Pending, Ok(None)}
              /\ calls[c].post = calls[c].pre
              /\ \A t \in Tasks :
                    cur[t] = c /\ pc[t] = "accessed" => ret[t] = Ok(None)

\* A delete and a fetch with a malformed key have both returned, the delete
\* from a store that holds a key.
C12_Witness ==
    \E c, d \in Returned :
        /\ IsDelete(c) /\ MalformedLookup(c)
        /\ c \in Effected /\ calls[c].pre # EmptyMap
        /\ IsFetch(d) /\ MalformedLookup(d) /\ d \in Effected

\* ------------------------------------------------------------------ C13

\* A task is, or was, in lock().await or past it for call c.
AskedForLock(c) == c \in Effected \/ \E t \in Tasks : cur[t] = c

\* C13, as stated: every mutating operation, stash and delete, on either
\* backend, runs the Key Validator on its key before it touches backend
\* state; so one with a malformed key fails with InvalidKey and neither asks
\* for the lock of the map nor sends a command.
C13_MutationsValidated ==
    /\ \A c \in CallIds :
          (IsStash(c) \/ IsDelete(c)) /\ ~IsKey(KeyOf(c)) =>
              /\ ResOf(c).tag = "InvalidKey"
              /\ \A t \in Tasks : cur[t] # c
    /\ \A i \in RCallIds :
          rcalls[i].op.kind \in {"stash", "delete"} /\ ~IsKey(rcalls[i].op.key) =>
              /\ rcalls[i].res.tag = "InvalidKey"
              /\ rcalls[i].cmds = <<>>

\* C13, amended: on either backend stash runs the Key Validator on its key
\* before it touches backend state, so with a malformed key it fails with
\* InvalidKey without asking for the lock or sending a command, and with
\* a well-formed key it goes on to the lock or to its SET; delete does not run
\* the validator on either backend: whatever its key, it never fails with
\* InvalidKey, asks for the lock of the map, and sends its DEL.
C13_OnlyStashValidated ==
    /\ \A c \in CallIds :
          /\ IsStash(c) /\ ~IsKey(KeyOf(c)) =>
                /\ ResOf(c).tag = "InvalidKey"
                /\ \A t \in Tasks : cur[t] # c
                /\ calls[c].post = calls[c].pre
          /\ IsStash(c) /\ IsKey(KeyOf(c)) =>
                /\ ResOf(c).tag # "InvalidKey"
                /\ \/ \E t \in Tasks : cur[t] = c
                   \/ c \in Returned /\ c \in Effected
          /\ IsDelete(c) =>
                /\ ResOf(c).tag # "InvalidKey"
                /\ \/ \E t \in Tasks : cur[t] = c
                   \/ c \in Returned /\ c \in Effected
    /\ \A i \in RCallIds :
          /\ rcalls[i].op.kind = "stash" /\ ~IsKey(rcalls[i].op.key) =>
                /\ rcalls[i].res.tag = "InvalidKey"
                /\ rcalls[i].cmds = <<>>
                /\ rcalls[i].post = rcalls[i].pre
          /\ rcalls[i].op.kind = "stash" /\ IsKey(rcalls[i].op.key) =>
                /\ rcalls[i].res.tag # "InvalidKey"
                /\ rcalls[i].cmds = <<SetCmd(rcalls[i].op.key, rcalls[i].op.val)>>
          /\ rcalls[i].op.kind = "delete" =>
                /\ rcalls[i].res.tag # "InvalidKey"
                /\ rcalls[i].cmds = <<DelCmd(rcalls[i].op.key)>>

\* A delete with a malformed key has gone through the lock of the map and
\* returned, another has sent its DEL, and a stash with a malformed key has
\* been refused.
C13_Witness ==
    /\ \E c \in Returned :
          IsDelete(c) /\ ~IsKey(KeyOf(c)) /\ c \in Effected
    /\ \E i \in RCallIds :
          /\ rcalls[i].op.kind = "delete" /\ ~IsKey(rcalls[i].op.key)
          /\ rcalls[i].cmds # <<>>
    /\ \/ \E c \in CallIds : IsStash(c) /\ ResOf(c).tag = "InvalidKey"
       \/ \E i \in RCallIds :
             rcalls[i].op.kind = "stash" /\ rcalls[i].res.tag = "InvalidKey"

\* ------------------------------------------------------------------ C14

\* The tasks that hold the lock of the map.
Holders == {t \in Tasks : pc[t] \in {"locked", "accessed"}}

\* The calls that have to go through the lock: all but a stash whose key the
\* validator refuses.
TakesLock(c) == ~(IsStash(c) /\ ~IsKey(KeyOf(c)))

\* How often call c has accessed the map.
Accesses(c) == Cardinality({i \in 1 .. Len(lin) : lin[i] = c})

\* The state part of the lock discipline.
LockState ==
    /\ Cardinality(Holders) <= 1
    /\ \A t \in Tasks : lock = Some(t) <=> t \in Holders
    /\ \A t \in Tasks :
          (pc[t] = "waiting") <=> (\E i \in 1 .. Len(waiters) : waiters[i] = t)
    /\ \A t \in Tasks :
          /\ pc[t] = "idle" <=> cur[t] = 0
          /\ pc[t] \in {"waiting", "locked"} => Accesses(cur[t]) = 0
          /\ pc[t] = "accessed" => Accesses(cur[t]) = 1
    /\ \A c \in CallIds :
          /\ TakesLock(c) /\ c \in Returned => Accesses(c) = 1
          /\ ~TakesLock(c) =>
                /\ c \in Returned
                /\ ResOf(c).tag = "InvalidKey"
                /\ \A t \in Tasks : cur[t] # c

\* The step part of the lock discipline: the map is read or written only by
\* the holder of the lock, once per call; a call asks for the lock once;
\* the lock is released by the step that returns.
LockStep ==
    /\ map' # map \/ (lin' # lin /\ Len(calls') = Len(calls)) =>
          \E t \in Tasks :
              /\ lock = Some(t) /\ lock' = Some(t)
              /\ pc[t] = "locked" /\ pc'[t] = "accessed"
              /\ lin' = Append(lin, cur[t])
    /\ (/\ Len(calls') > Len(calls)
        /\ calls'[Len(calls')].op.kind = "stash"
        /\ ~IsKey(calls'[Len(calls')].op.key)) =>
          /\ lock' = lock /\ waiters' = waiters /\ pc' = pc
          /\ map' = map
    /\ \A t \in Tasks :
          /\ pc[t] = "idle" => pc'[t] \in {"idle", "waiting", "locked"}
          /\ pc[t] = "waiting" => pc'[t] \in {"waiting", "locked"}
          /\ pc[t] = "locked" => pc'[t] \in {"locked", "accessed"}
          /\ pc[t] = "accessed" => pc'[t] \in {"accessed", "idle"}
          /\ pc[t] # "idle" /\ pc'[t] # "idle" => cur'[t] = cur[t]
          /\ pc[t] = "accessed" /\ pc'[t] = "idle" =>
                /\ lock' # Some(t)
                /\ cur[t] \in Returned'

\* C14: the lock discipline of the in-memory backend. At most one task holds
\* the lock; the map is read or written only by the task that holds it;
\* every fetch, stash, delete, len and is_empty call acquires the lock at
\* most once, accesses the map exactly once while holding it and releases it
\* before it returns; a stash with an invalid key returns without ever
\* acquiring the lock.
C14_LockDiscipline == [](LockState) /\ [][LockStep]_vars

\* Two calls have overlapped, one waiting for the lock the other held, and
\* both have returned; a stash with an invalid key has returned too.
C14_Witness ==
    /\ \E c, d \in Returned :
          /\ c # d /\ TakesLock(c) /\ TakesLock(d)
          /\ Overlap(c, d)
    /\ \E c \in Returned : ~TakesLock(c)

\* ------------------------------------------------------------------ C15

\* Call number c has been invoked and has not returned.
InFlight(c) == c \in CallIds /\ c \notin Returned

\* C15: the in-memory backend is free of deadlock and of starvation: under
\* fair scheduling and fair lock hand-off every invoked call eventually
\* returns, and the lock is free, with no task waiting for it, whenever all
\* invoked calls have returned.
C15_EveryCallReturns ==
    /\ \A c \in 1 .. MaxCalls : InFlight(c) ~> (c \in Returned)
    /\ [](CallIds \subseteq Returned => lock = None /\ waiters = <<>>)

\* A call that found the lock taken, and so was suspended, has returned, all
\* calls have returned and the lock is free.
C15_Witness ==
    /\ \E c, d \in Returned :
          /\ TakesLock(c) /\ TakesLock(d)
          /\ d < c /\ ~Precedes(d, c)
    /\ CallIds \subseteq Returned
    /\ lock = None

\* ------------------------------------------------------------------ C16

\* The operations that held the lock and released it while call c was
\* suspended in lock().await: those that had not returned when c was invoked
\* and accessed the map before c did.
HeldMeanwhile(c) ==
    {d \in Effected \ {c} :
        TakesLock(d) /\ ~Precedes(d, c) /\ PosOf(d) < PosOf(c)}

\* C16, as stated: a call suspended while awaiting the lock acquires it after
\* at most one other operation has held and released it, whatever the number
\* of concurrent callers.
C16_WaitsForOneOperation ==
    \A c \in Effected :
        TakesLock(c) => Cardinality(HeldMeanwhile(c)) <= 1

\* C16, amended: a call suspended while awaiting the lock acquires it after
\* the operations that asked for the lock before it and had not yet
\* returned, and only those: at most one per other caller, and never one
\* that asked later.
C16_WaitsForThoseAhead ==
    \A c \in Effected :
        TakesLock(c) =>
            /\ \A d \in HeldMeanwhile(c) : d < c /\ calls[d].task # calls[c].task
            /\ \A d, e \in HeldMeanwhile(c) : calls[d].task = calls[e].task => d = e
            /\ Cardinality(HeldMeanwhile(c)) <= Cardinality(DOMAIN pc) - 1

\* A call has acquired the lock after two other operations held and
\* released it, and has returned.
C16_Witness ==
    \E c \in Returned :
        c \in Effected /\ TakesLock(c) /\ Cardinality(HeldMeanwhile(c)) = 2

\* ------------------------------------------------------------------ C17

\* The successful mutating calls on key k among the first n calls that took
\* effect, and the latest of them.
MutationsOf(k, n) ==
    {c \in Effected :
        /\ PosOf(c) <= n
        /\ KeyOf(c) = k
        /\ (IsStash(c) /\ ResOf(c).tag # "InvalidKey") \/ IsDelete(c)}
LastMutation(k, n) ==
    CHOOSE c \in MutationsOf(k, n) : \A d \in MutationsOf(k, n) : PosOf(d) <= PosOf(c)

\* The keys whose most recent successful mutating call, among the first n
\* calls that took effect, was a stash.
LiveKeys(n) ==
    {k \in {KeyOf(c) : c \in Effected} :
        MutationsOf(k, n) # {} /\ IsStash(LastMutation(k, n))}

\* The calls that must leave the map as it is.
LeavesMap(c) ==
    \/ calls[c].op.kind \in {"fetch", "len", "is_empty"}
    \/ IsStash(c) /\ ResOf(c).tag = "InvalidKey"
    \/ IsDelete(c) /\ KeyOf(c) \notin DOMAIN calls[c].pre

\* C17: the contents of the in-memory store are determined by the successful
\* stash and delete calls alone. A new store is empty; the map holds exactly
\* the keys whose most recent successful mutating call was a stash, each
\* with that stash's value; len is the number of such keys and is_empty
\* holds exactly when len is 0; fetch, len, is_empty, a failing stash and a
\* delete of an absent key leave the map as it was.
C17_ContentsFromMutations ==
    /\ lin = <<>> => map = EmptyMap
    /\ DOMAIN map = LiveKeys(Len(lin))
    /\ \A k \in DOMAIN map : map[k] = ValOf(LastMutation(k, Len(lin)))
    /\ \A c \in Effected :
          /\ DOMAIN calls[c].pre = LiveKeys(PosOf(c) - 1)
          /\ calls[c].op.kind = "len" /\ c \in Returned =>
                ResOf(c) = Usize(Cardinality(LiveKeys(PosOf(c) - 1)))
          /\ calls[c].op.kind = "is_empty" /\ c \in Returned =>
                ResOf(c) = Bool(Cardinality(LiveKeys(PosOf(c) - 1)) = 0)
          /\ LeavesMap(c) => calls[c].post = calls[c].pre

\* len or is_empty has returned on a store that a stash had filled and a
\* delete emptied again.
C17_Witness ==
    \E c \in Returned, d, e \in Effected :
        /\ calls[c].op.kind \in {"len", "is_empty"}
        /\ c \in Effected /\ calls[c].pre = EmptyMap
        /\ IsDelete(d) /\ PosOf(d) < PosOf(c)
        /\ calls[d].post # calls[d].pre
        /\ IsStash(e) /\ PosOf(e) < PosOf(d)

\* ------------------------------------------------------------------ C18

\* Task-local read-modify-write cut by another task: f is a fetch of a key
\* that has returned, s a later stash of the same key by the same task, and
\* m a stash or delete of that key by another task that took effect between
\* the two, the last such before s.
Intrudes(f, m, s) ==
    /\ IsFetch(f) /\ IsStash(s) /\ TakesLock(s)
    /\ calls[f].task = calls[s].task /\ Precedes(f, s)
    /\ KeyOf(f) = KeyOf(s) /\ KeyOf(m) = KeyOf(s)
    /\ calls[m].task # calls[s].task
    /\ (IsStash(m) /\ TakesLock(m)) \/ IsDelete(m)
    /\ {f, m, s} \subseteq Effected
    /\ PosOf(f) < PosOf(m) /\ PosOf(m) < PosOf(s)
    /\ \A x \in Effected :
          PosOf(m) < PosOf(x) /\ PosOf(x) < PosOf(s) =>
              calls[x].post = calls[x].pre

\* C18: a fetch(k) followed by a stash(k, _) of one task is not atomic as a
\* pair. Nothing keeps another task's stash or delete of k from taking
\* effect between the two calls, and when one does, the stash goes ahead all
\* the same: it finds and returns what the other task left, not what the
\* fetch saw, and overwrites the other task's write.
C18_IntrudingWriteOverwritten ==
    \A f, m, s \in CallIds :
        Intrudes(f, m, s) =>
            /\ Held(calls[s].pre, KeyOf(s)) = Held(calls[m].post, KeyOf(s))
            /\ s \in Returned => ResOf(s) = Ok(Held(calls[m].post, KeyOf(s)))
            /\ Held(calls[s].post, KeyOf(s)) = Some(ValOf(s))

\* The interleaving is reachable: another task's stash of the key took
\* effect between a task's fetch and its stash, so that the value fetched was
\* stale when the stash ran, and the stash has replaced the other task's
\* value with its own.
C18_Witness ==
    \E f, m, s \in Returned :
        /\ Intrudes(f, m, s)
        /\ IsStash(m)
        /\ ResOf(f) # Ok(Held(calls[s].pre, KeyOf(s)))
        /\ ValOf(m) # ValOf(s)
        /\ Held(map, KeyOf(s)) = Some(ValOf(s))

\* ------------------------------------------------------------------ C19

\* The command a call of the networked backend is to send.
CommandOf(op) ==
    CASE op.kind = "fetch" -> GetCmd(op.key)
      [] op.kind = "stash" -> SetCmd(op.key, op.val)
      [] op.kind = "delete" -> DelCmd(op.key)

\* The calls of the networked backend that get as far as the server: all
\* but a stash with a malformed key.
ReachesServer(i) == ~(rcalls[i].op.kind = "stash" /\ ~IsKey(rcalls[i].op.key))

\* C19: on the networked backend each fetch, stash with a valid key and
\* delete issues exactly one remote command. If that command fails, the call
\* returns BackendError wrapping the remote error, never InvalidKey and
\* never an Ok, at once, with no retry and no further command; a fetch of a
\* key the server does not hold is Ok(None), not an error.
C19_RemoteErrorsPropagate ==
    \A i \in RCallIds :
        ReachesServer(i) =>
            /\ rcalls[i].cmds = <<CommandOf(rcalls[i].op)>>
            /\ rcalls[i].res.tag # "InvalidKey"
            /\ rcalls[i].raw.tag = "RedisError" =>
                  rcalls[i].res = BackendError(rcalls[i].raw.val[1])
            /\ rcalls[i].res.tag = "BackendError" => rcalls[i].raw.tag = "RedisError"
            /\ /\ rcalls[i].op.kind = "fetch"
               /\ rcalls[i].raw.tag # "RedisError"
               /\ rcalls[i].op.key \notin DOMAIN rcalls[i].pre
               => rcalls[i].res = Ok(None)

\* The command of a fetch has failed and the fetch returned BackendError,
\* another fetch has found its key absent and returned Ok(None), and the
\* command of a stash or of a delete has failed too.
C19_Witness ==
    \E i, j \in RCallIds :
        /\ rcalls[i].op.kind = "fetch" /\ rcalls[i].raw = RedisError("IoError")
        /\ rcalls[i].res.tag = "BackendError"
        /\ rcalls[j].op.kind = "fetch" /\ rcalls[j].res = Ok(None)
        /\ \E k \in RCallIds :
              /\ rcalls[k].op.kind \in {"stash", "delete"}
              /\ rcalls[k].raw.tag = "RedisError"

====
